---- MODULE Spec2Model ----
(***************************************************************************)
(* Record lifecycle and notification dispatch of server/server.py.         *)
(*                                                                         *)
(* Every HTTP request runs on its own thread (Reqs).  A handler is cut     *)
(* into steps at the places where it touches state shared with the other   *)
(* threads: the record files under DATA_DIR and the notification pool.     *)
(* A record file holds what a reader would find in it: nothing (no file),  *)
(* zero bytes (just truncated by open(path, "w")), bytes that do not       *)
(* parse, or one JSON record.                                              *)
(***************************************************************************)
EXTENDS Integers, Sequences, FiniteSets, TLC

\* ---------------------------------------------------------------- bounds
MaxThreads == 2       \* requests the threaded server is sent, overlapping
MaxReqs == 3          \* requests the one-at-a-time server is sent, in a row

\* -------------------------------------------------------- program values
max_workers == 2
\* clock ticks fut.result() waits; the environment sets it, one tick here
SMTP_TIMEOUT == 1

Reqs == 1..MaxReqs
\* values of uuid4().hex[:12]
Tokens == {"a1", "b2"}
\* submitted comment fields, as sequences of characters
Comments == {<<>>, <<" ">>, <<" ", "c", " ">>}
\* submitted decision fields
RawDecisions == {"approved", "REJECTED", "maybe"}
EmailModes == {"off", "sync", "async"}

\* -------------------------------------------------------- pure functions
\* str.lower() on the decision field
lower(s) ==
  CASE s = "REJECTED" -> "rejected"
    [] s = "APPROVED" -> "approved"
    [] OTHER -> s

RECURSIVE lstrip(_)
lstrip(s) ==
  IF s = <<>> THEN <<>>
  ELSE IF Head(s) = " " THEN lstrip(Tail(s)) ELSE s

RECURSIVE rstrip(_)
rstrip(s) ==
  IF s = <<>> THEN <<>>
  ELSE IF s[Len(s)] = " " THEN rstrip(SubSeq(s, 1, Len(s) - 1)) ELSE s

\* faulty variant: the comment is not stripped
strip_none(s) == s

\* str.strip()
strip(s) == rstrip(lstrip(s))

\* ------------------------------------------------------------ file values
NoFile == [kind |-> "absent", status |-> "", responses |-> <<>>]
EmptyFile == [kind |-> "empty", status |-> "", responses |-> <<>>]
Garbled == [kind |-> "garbled", status |-> "", responses |-> <<>>]
Json(st, rs) == [kind |-> "json", status |-> st, responses |-> rs]

NoRec == [token |-> "", status |-> "", responses |-> <<>>]
NoEvent == [decision |-> "", comment |-> <<>>]

\* faulty variant: a record that already has a decision is not served
load_record_once(f) ==
  CASE f.kind = "json" /\ f.responses = <<>> ->
         [res |-> "rec", status |-> f.status, responses |-> f.responses]
    [] f.kind \in {"json", "absent"} -> [res |-> "None", status |-> "", responses |-> <<>>]
    [] OTHER -> [res |-> "raise", status |-> "", responses |-> <<>>]

\* faulty variant: a missing file reads as an empty record
load_record_lenient(f) ==
  CASE f.kind \in {"json", "absent"} ->
         [res |-> "rec", status |-> f.status, responses |-> f.responses]
    [] OTHER -> [res |-> "raise", status |-> "", responses |-> <<>>]

\* load_record: None when the file does not exist, the parsed record when
\* it holds one, and json.load raises on anything else
load_record(f) ==
  CASE f.kind = "absent" -> [res |-> "None", status |-> "", responses |-> <<>>]
    [] f.kind = "json" -> [res |-> "rec", status |-> f.status, responses |-> f.responses]
    [] OTHER -> [res |-> "raise", status |-> "", responses |-> <<>>]

VARIABLES
  EMAIL_MODE,  \* configuration, fixed at start-up
  threaded,    \* the server runs handlers on concurrent threads
  files,       \* token -> content of DATA_DIR/<token>.json
  pc,          \* request -> position of its handler
  handler,     \* request -> the route that serves it
  rec,         \* request -> the handler's local rec
  loaded,      \* request -> rec["responses"] as load_record returned it
  event,       \* request -> the handler's local event
  outcome,     \* request -> what the caller got
  warning,     \* request -> the warning rendered in result.html
  durable,     \* request -> save_record returned for its record
  fut,         \* request -> state of its executor future
  queue,       \* executor work queue
  running,     \* tasks a pool worker is executing
  attempts,    \* request -> send_email calls started for its event
  timer,       \* request -> ticks spent in fut.result()
  last_put,    \* token -> responses of the last record its file held
  crashed      \* the server process has died

vars == <<EMAIL_MODE, threaded, files, pc, handler, rec, loaded, event,
          outcome, warning, durable, fut, queue, running, attempts, timer,
          last_put, crashed>>

\* what no handler and no worker changes
configVars == <<EMAIL_MODE, threaded, crashed>>
localVars == <<rec, loaded, event, handler>>
storeVars == <<files, last_put>>
resultVars == <<outcome, warning>>
poolVars == <<fut, queue, running, attempts, timer>>

\* DATA_DIR outlives the process: what an earlier run left in it, here one
\* uploaded record nobody has answered yet
Kept == [t \in Tokens |-> IF t = "a1" THEN Json("pending", <<>>) ELSE NoFile]

\* the memory of a process that has served nothing yet
Fresh ==
  /\ pc = [r \in Reqs |-> "idle"]
  /\ handler = [r \in Reqs |-> "none"]
  /\ rec = [r \in Reqs |-> NoRec]
  /\ loaded = [r \in Reqs |-> <<>>]
  /\ event = [r \in Reqs |-> NoEvent]
  /\ outcome = [r \in Reqs |-> "none"]
  /\ warning = [r \in Reqs |-> ""]
  /\ durable = [r \in Reqs |-> FALSE]
  /\ fut = [r \in Reqs |-> "none"]
  /\ queue = <<>>
  /\ running = {}
  /\ attempts = [r \in Reqs |-> 0]
  /\ timer = [r \in Reqs |-> 0]

\* start-up: DATA_DIR is empty or as an earlier run left it, no request is
\* being served and the executor is idle
Boot ==
  /\ EMAIL_MODE \in EmailModes
  /\ files \in {[t \in Tokens |-> NoFile], Kept}
  /\ Fresh
  /\ last_put = [t \in Tokens |-> <<>>]
  /\ crashed = FALSE

\* a server with concurrent request threads
Init == Boot /\ threaded = TRUE

\* a server that takes the next request when the last one has returned
SeqInit == Boot /\ threaded = FALSE

Busy(r) == pc[r] \notin {"idle", "done"}

\* request r can be picked up: requests are numbered as they arrive; the
\* threaded server is sent MaxThreads of them and serves them side by side,
\* the other one serves each after the one before has returned
Accept(r) ==
  /\ ~crashed
  /\ pc[r] = "idle"
  /\ \A o \in Reqs : o < r => pc[o] # "idle"
  /\ IF threaded THEN r <= MaxThreads ELSE \A o \in Reqs : ~Busy(o)

\* the handler returns (or raises) with outcome o; its locals die with it
Return(r, o, w) ==
  /\ pc' = [pc EXCEPT ![r] = "done"]
  /\ outcome' = [outcome EXCEPT ![r] = o]
  /\ warning' = [warning EXCEPT ![r] = w]
  /\ rec' = [rec EXCEPT ![r] = NoRec]
  /\ loaded' = [loaded EXCEPT ![r] = <<>>]
  /\ event' = [event EXCEPT ![r] = NoEvent]
  /\ handler' = [handler EXCEPT ![r] = "none"]

\* the handler moves on to position p
Goto(r, p) ==
  /\ pc' = [pc EXCEPT ![r] = p]
  /\ UNCHANGED <<resultVars, localVars>>

\* ---------------------------------------------------------------- upload
\* a request without a .pdf file is turned away; otherwise a token is
\* drawn and the record {status: pending, responses: []} is built
Upload(r, h, badFile) ==
  /\ Accept(r)
  /\ \E pdf \in BOOLEAN :
       IF ~pdf
       THEN Return(r, badFile, "")
       ELSE \E tok \in Tokens :
              /\ rec' = [rec EXCEPT ![r] =
                           [token |-> tok, status |-> "pending", responses |-> <<>>]]
              /\ handler' = [handler EXCEPT ![r] = h]
              /\ pc' = [pc EXCEPT ![r] = "open"]
              /\ UNCHANGED <<loaded, event, resultVars>>
  /\ UNCHANGED <<configVars, storeVars, durable, poolVars>>

upload_post(r) == Upload(r, "upload_post", "BadFile200")

api_upload(r) == Upload(r, "api_upload", "BadFile400")

\* ----------------------------------------------------------- save_record
\* faulty variant: the exception is swallowed and the handler carries on
on_store_error_swallowed(r) == Goto(r, "notify")

\* where the handler goes when save_record raises: nothing catches it
on_store_error(r) == Return(r, "StoreError", "")

\* open(path, "w"): truncates the file, or raises and leaves it alone
save_record_open(r) ==
  /\ pc[r] = "open"
  /\ \/ /\ files' = [files EXCEPT ![rec[r].token] = EmptyFile]
        /\ Goto(r, "dump")
     \/ /\ on_store_error(r)
        /\ UNCHANGED files
  /\ UNCHANGED <<configVars, last_put, durable, poolVars>>

\* what the file holds once this writer's bytes are flushed at offset 0:
\* its record, unless bytes another writer flushed since the truncation
\* reach past the end of it
Flushed(f, st, rs) ==
  IF f.kind = "empty" THEN {Json(st, rs)} ELSE {Json(st, rs), Garbled}

\* what a failed write leaves behind: nothing flushed, or part of the bytes
Failed(f) == {f, Garbled}

\* json.dump and the close of the with block
save_record_dump(r) ==
  /\ pc[r] = "dump"
  /\ LET tok == rec[r].token IN
     \/ /\ \E c \in Flushed(files[tok], rec[r].status, rec[r].responses) :
             /\ files' = [files EXCEPT ![tok] = c]
             /\ last_put' = IF c.kind = "json"
                             THEN [last_put EXCEPT ![tok] = c.responses]
                             ELSE last_put
        /\ IF handler[r] = "respond_form"
           THEN /\ Goto(r, "notify")
                /\ durable' = [durable EXCEPT ![r] = TRUE]
           ELSE /\ Return(r, "ok", "")
                /\ UNCHANGED durable
     \/ /\ \E c \in Failed(files[tok]) :
             files' = [files EXCEPT ![tok] = c]
        /\ on_store_error(r)
        /\ UNCHANGED <<durable, last_put>>
  /\ UNCHANGED <<configVars, poolVars>>

\* ----------------------------------------------------------- respond_form
\* faulty variant: any decision value passes
valid_decision_any(decision) == TRUE

valid_decision(decision) == decision \in {"approved", "rejected"}

\* faulty variant: a rejection needs no comment
comment_missing_never(decision, comment) == FALSE

comment_missing(decision, comment) == decision = "rejected" /\ comment = <<>>

\* faulty variant: the event replaces the earlier responses
apply_decision_replacing(tok, responses, ev) ==
  [token |-> tok, status |-> ev.decision, responses |-> <<ev>>]

\* faulty variant: the event is appended and the status left as uploaded
apply_decision_status_kept(tok, responses, ev) ==
  [token |-> tok, status |-> "pending", responses |-> Append(responses, ev)]

\* rec["status"] = decision; rec["responses"].append(event)
apply_decision(tok, responses, ev) ==
  [token |-> tok, status |-> ev.decision, responses |-> Append(responses, ev)]

\* POST /respond/<token> arrives with form fields d and c: from load_record
\* to the append, all but the read on the handler's own data
respond_form_load(r, tok, d, c) ==
  /\ Accept(r)
  /\ LET l == load_record(files[tok])
         decision == lower(d)
         comment == strip(c)
         ev == [decision |-> decision, comment |-> comment]
     IN
       IF l.res = "raise"
       THEN Return(r, "ReadError", "")
       ELSE IF l.res = "None"
       THEN Return(r, "RecordNotFound", "")
       ELSE IF ~valid_decision(decision)
       THEN Return(r, "InvalidDecision", "")
       ELSE IF comment_missing(decision, comment)
       THEN Return(r, "CommentRequired", "")
       ELSE /\ rec' = [rec EXCEPT ![r] = apply_decision(tok, l.responses, ev)]
            /\ loaded' = [loaded EXCEPT ![r] = l.responses]
            /\ event' = [event EXCEPT ![r] = ev]
            /\ handler' = [handler EXCEPT ![r] = "respond_form"]
            /\ pc' = [pc EXCEPT ![r] = "open"]
            /\ UNCHANGED resultVars
  /\ UNCHANGED <<configVars, storeVars, durable, poolVars>>

\* GET /proof/<token>: one load_record; abort(404) when it returns None
proof_page(r, tok) ==
  /\ Accept(r)
  /\ LET l == load_record(files[tok]) IN
       Return(r, CASE l.res = "raise" -> "PageError"
                   [] l.res = "None" -> "PageNotFound"
                   [] OTHER -> "Page", "")
  /\ UNCHANGED <<configVars, storeVars, durable, poolVars>>

\* faulty variant: a disabled notification is handed to the executor
notify_branch_always(mode) == IF mode = "sync" THEN "sync" ELSE "async"

\* the if / elif / else on EMAIL_MODE
notify_branch(mode) ==
  CASE mode = "off" -> "off"
    [] mode = "sync" -> "sync"
    [] OTHER -> "async"

\* the warning for a delivery that ended with result res
delivery_warning(res) == IF res = "ok" THEN "" ELSE "Email send failed"

\* results of send_email: it returns, or it raises
SendResults == {"ok", "fail"}

\* the warnings fut.result() can lead to once the task has ended with res.
\* The handler catches FuturesTimeout before Exception, and what send_email
\* raised may be a TimeoutError (socket.timeout of the SMTP connection):
\* from Python 3.11 concurrent.futures.TimeoutError is the builtin
\* TimeoutError, so fut.result() re-raising it lands in the first clause,
\* on older interpreters in the second
result_warnings(res) ==
  IF res = "ok"
  THEN {""}
  ELSE {"Email send failed", "Email is sending in background"}

\* faulty variant: a delivery problem turns the response into a failure
Recorded_unless_warned(r, w) ==
  Return(r, IF w = "" THEN "ok" ELSE "NotificationError", w)

\* what the caller gets once the record is saved, whatever the delivery did
Recorded(r, w) == Return(r, "ok", w)

\* EMAIL_MODE off returns at once; sync runs send_email on this thread;
\* async hands it to the executor and starts waiting on the future
respond_form_notify(r) ==
  /\ pc[r] = "notify"
  /\ CASE notify_branch(EMAIL_MODE) = "off" ->
            /\ Recorded(r, "")
            /\ UNCHANGED poolVars
       [] notify_branch(EMAIL_MODE) = "sync" ->
            /\ Goto(r, "sending")
            /\ attempts' = [attempts EXCEPT ![r] = @ + 1]
            /\ UNCHANGED <<fut, queue, running, timer>>
       [] OTHER ->
            /\ Goto(r, "wait")
            /\ queue' = Append(queue, r)
            /\ fut' = [fut EXCEPT ![r] = "queued"]
            /\ UNCHANGED <<running, attempts, timer>>
  /\ UNCHANGED <<configVars, storeVars, durable>>

\* send_email returns or raises on the request thread
respond_form_sync(r) ==
  /\ pc[r] = "sending"
  /\ \E res \in {"ok", "fail"} : Recorded(r, delivery_warning(res))
  /\ UNCHANGED <<configVars, storeVars, durable, poolVars>>

\* ---------------------------------------------------------------- executor
\* faulty variant: the pool starts a thread for every task
worker_free_always(n) == TRUE

\* with n tasks executing, one of the pool's threads is idle
worker_free(n) == n < max_workers

\* a free worker takes the oldest queued task and calls send_email
worker_start ==
  /\ queue # <<>>
  /\ worker_free(Cardinality(running))
  /\ running' = running \cup {Head(queue)}
  /\ queue' = Tail(queue)
  /\ fut' = [fut EXCEPT ![Head(queue)] = "running"]
  /\ attempts' = [attempts EXCEPT ![Head(queue)] = @ + 1]
  /\ UNCHANGED <<configVars, storeVars, pc, localVars, resultVars, durable, timer>>

\* faulty variant: a failed send is put back on the queue
worker_finish_retry(t) ==
  /\ t \in running
  /\ running' = running \ {t}
  /\ \/ /\ fut' = [fut EXCEPT ![t] = "ok"]
        /\ UNCHANGED queue
     \/ /\ fut' = [fut EXCEPT ![t] = "queued"]
        /\ queue' = Append(queue, t)
  /\ UNCHANGED <<configVars, storeVars, pc, localVars, resultVars, durable,
                 attempts, timer>>

\* faulty variant: the send never returns
worker_finish_hung(t) ==
  /\ t \in running
  /\ UNCHANGED vars

\* send_email returns or raises on the worker; the future is resolved
worker_finish(t) ==
  /\ t \in running
  /\ running' = running \ {t}
  /\ \E res \in SendResults : fut' = [fut EXCEPT ![t] = res]
  /\ UNCHANGED <<configVars, storeVars, pc, localVars, resultVars, durable,
                 queue, attempts, timer>>

\* fut.result(timeout=SMTP_TIMEOUT) returns or re-raises the task's error
respond_form_result(r) ==
  /\ pc[r] = "wait"
  /\ fut[r] \in SendResults
  /\ \E w \in result_warnings(fut[r]) : Recorded(r, w)
  /\ timer' = [timer EXCEPT ![r] = 0]
  /\ UNCHANGED <<configVars, storeVars, durable, fut, queue, running, attempts>>

\* faulty variant: the wait gives up one tick late
timed_out_late(t) == t >= SMTP_TIMEOUT + 1

\* the timeout of fut.result(timeout=SMTP_TIMEOUT) is due
timed_out(t) == t >= SMTP_TIMEOUT

\* fut.result raises FuturesTimeout; the task stays where it is
respond_form_timeout(r) ==
  /\ pc[r] = "wait"
  /\ fut[r] \notin SendResults
  /\ timed_out(timer[r])
  /\ Recorded(r, "Email is sending in background")
  /\ timer' = [timer EXCEPT ![r] = 0]
  /\ UNCHANGED <<configVars, storeVars, durable, fut, queue, running, attempts>>

Waiting == {r \in Reqs : pc[r] = "wait"}

\* one clock tick passes for every thread blocked in fut.result; a wait
\* whose timeout is due returns before the clock moves on
Tick ==
  /\ Waiting # {}
  /\ \A r \in Waiting : ~timed_out(timer[r])
  /\ timer' = [r \in Reqs |-> IF r \in Waiting THEN timer[r] + 1 ELSE timer[r]]
  /\ UNCHANGED <<configVars, storeVars, pc, localVars, resultVars, durable,
                 fut, queue, running, attempts>>

\* ------------------------------------------------------------------- system
Handler(r) ==
  \/ upload_post(r)
  \/ api_upload(r)
  \/ \E tok \in Tokens, d \in RawDecisions, c \in Comments :
       respond_form_load(r, tok, d, c)
  \/ \E tok \in Tokens : proof_page(r, tok)
  \/ save_record_open(r)
  \/ save_record_dump(r)
  \/ respond_form_notify(r)
  \/ respond_form_sync(r)
  \/ respond_form_result(r)
  \/ respond_form_timeout(r)

Pool ==
  \/ worker_start
  \/ \E t \in Reqs : worker_finish(t)
  \/ Tick

\* the process dies (killed, host restarted) while a handler is in
\* save_record or about to call it: its threads, their locals and the
\* executor are gone, DATA_DIR stays as it is at that moment
Crash ==
  /\ ~crashed
  /\ \E r \in Reqs : pc[r] \in {"open", "dump"}
  /\ crashed' = TRUE
  /\ pc' = [r \in Reqs |-> "idle"]
  /\ handler' = [r \in Reqs |-> "none"]
  /\ rec' = [r \in Reqs |-> NoRec]
  /\ loaded' = [r \in Reqs |-> <<>>]
  /\ event' = [r \in Reqs |-> NoEvent]
  /\ outcome' = [r \in Reqs |-> "none"]
  /\ warning' = [r \in Reqs |-> ""]
  /\ durable' = [r \in Reqs |-> FALSE]
  /\ fut' = [r \in Reqs |-> "none"]
  /\ queue' = <<>>
  /\ running' = {}
  /\ attempts' = [r \in Reqs |-> 0]
  /\ timer' = [r \in Reqs |-> 0]
  /\ UNCHANGED <<EMAIL_MODE, threaded, storeVars>>

\* the steps of a process that stays up
Serve == (\E r \in Reqs : Handler(r)) \/ Pool

Next == Serve \/ Crash

Spec == Init /\ [][Next]_vars

SeqSpec == SeqInit /\ [][Next]_vars

\* the pool's threads get to run: a free worker takes a queued task, and
\* every send_email ends (its socket has timeout=SMTP_TIMEOUT)
Fairness ==
  /\ WF_vars(worker_start)
  /\ \A t \in Reqs : WF_vars(worker_finish(t))

\* the one-at-a-time server as long as the process stays up
LiveSpec == SeqInit /\ [][Serve]_vars /\ Fairness

\* ------------------------------------------------------------------ claims
Last(s) == s[Len(s)]

IsPrefix(s, t) == Len(s) <= Len(t) /\ SubSeq(t, 1, Len(s)) = s

Records == {t \in Tokens : files[t].kind = "json"}

\* request r takes the step that leaves position p
Leaves(r, p) == pc[r] = p /\ pc'[r] # p /\ ~crashed'

\* request r returns from save_record without an exception
Saved(r) == pc[r] = "dump" /\ pc'[r] = "notify"

\* C1: the status of every stored record is the decision of the last
\* element of its responses, or pending when it has no responses
C1_StatusDerived ==
  \A t \in Records :
    files[t].status = IF files[t].responses = <<>> THEN "pending"
                      ELSE Last(files[t].responses).decision

C1_Witness ==
  \E t \in Records :
    /\ Len(files[t].responses) = 2
    /\ files[t].responses[1].decision # files[t].responses[2].decision

\* C2: whenever a decision request writes its record, the responses of
\* the record the file held before are a prefix of the responses written
C2_AppendOnly ==
  [][\A r \in Reqs :
       (Saved(r) /\ files'[rec[r].token].kind = "json") =>
         IsPrefix(last_put[rec[r].token], files'[rec[r].token].responses)]_vars

\* C3: when a decision request returns from save_record, the file of its
\* token holds the decision as status and the responses it loaded followed
\* by its one event, which carries that decision
C3_DecisionStored ==
  [][\A r \in Reqs :
       Saved(r) =>
         /\ event[r].decision \in {"approved", "rejected"}
         /\ files'[rec[r].token] =
              Json(event[r].decision, Append(loaded[r], event[r]))]_vars

C3_Witness ==
  \E r \in Reqs :
    /\ pc[r] = "notify"
    /\ Len(loaded[r]) = 1
    /\ files[rec[r].token] = Json(event[r].decision, Append(loaded[r], event[r]))

\* the form fields as the claims read them
Approves(d) == d \in {"approved", "APPROVED"}
Rejects(d) == d \in {"rejected", "REJECTED"}
Blank(c) == \A i \in 1..Len(c) : c[i] = " "
ValidForm(d, c) == Approves(d) \/ (Rejects(d) /\ ~Blank(c))

\* request r is taken up in this step
Arrives(r) == pc[r] = "idle" /\ pc'[r] # "idle"

\* the decision forms that satisfy Sent, as <<decision, comment>>
Forms(Sent(_, _)) ==
  {f \in RawDecisions \X Comments : Sent(f[1], f[2])}

\* the step is the handling of request r posting form f for token tok
Posted(r, tok, f) == respond_form_load(r, tok, f[1], f[2])

AnyForm(d, c) == TRUE
BareRejection(d, c) == Rejects(d) /\ Blank(c)
NoDecision(d, c) == ~Approves(d) /\ ~Rejects(d)

\* the request leaves the store and the notification pool as they were
Untouched == UNCHANGED <<storeVars, durable, poolVars>>

\* C4: a valid decision for a record that already has a decision is
\* accepted; saved on a record with one response it leaves two responses,
\* the earlier one first, and its own decision as status; and a request
\* whose record was saved returns success
C4_RepeatedDecision ==
  [][\A r \in Reqs :
       /\ Arrives(r) =>
            \A tok \in Tokens :
              (files[tok].kind = "json" /\ files[tok].responses # <<>>) =>
                \A f \in Forms(ValidForm) :
                  Posted(r, tok, f) => pc'[r] = "open"
       /\ (Saved(r) /\ Len(loaded[r]) = 1) =>
            /\ files'[rec[r].token].responses = <<loaded[r][1], event[r]>>
            /\ files'[rec[r].token].status = event[r].decision
       /\ (durable[r] /\ pc'[r] = "done") => outcome'[r] = "ok"]_vars

C4_Witness ==
  /\ \E t \in Records : Len(files[t].responses) = 2
  /\ \E r1, r2 \in Reqs :
       /\ r1 # r2
       /\ \A r \in {r1, r2} : durable[r] /\ pc[r] = "done" /\ outcome[r] = "ok"

\* C5: a decision request for a token that has no record file returns
\* RecordNotFound whatever its form fields are, and touches neither the
\* store nor the notification pool
C5_UnknownToken ==
  [][\A r \in Reqs :
       Arrives(r) =>
         \A tok \in Tokens :
           files[tok].kind = "absent" =>
             \A f \in Forms(AnyForm) :
               Posted(r, tok, f) =>
                 /\ pc'[r] = "done"
                 /\ outcome'[r] = "RecordNotFound"
                 /\ Untouched]_vars

C5_Witness ==
  \E r \in Reqs : pc[r] = "done" /\ outcome[r] = "RecordNotFound"

\* C6: a rejection whose comment is blank, sent for a token whose record
\* loads, returns CommentRequired and touches neither the store nor the
\* notification pool
C6_CommentRequired ==
  [][\A r \in Reqs :
       Arrives(r) =>
         \A tok \in Tokens :
           files[tok].kind = "json" =>
             \A f \in Forms(BareRejection) :
               Posted(r, tok, f) =>
                 /\ pc'[r] = "done"
                 /\ outcome'[r] = "CommentRequired"
                 /\ Untouched]_vars

C6_Witness ==
  \E r \in Reqs : pc[r] = "done" /\ outcome[r] = "CommentRequired"

\* C7: a decision that is neither approved nor rejected, sent for a token
\* whose record loads, returns InvalidDecision and touches neither the
\* store nor the notification pool; a request turned away by validation
\* has saved nothing and started no delivery
C7_InvalidDecision ==
  [][\A r \in Reqs :
       /\ Arrives(r) =>
            \A tok \in Tokens :
              files[tok].kind = "json" =>
                \A f \in Forms(NoDecision) :
                  Posted(r, tok, f) =>
                    /\ pc'[r] = "done"
                    /\ outcome'[r] = "InvalidDecision"
                    /\ Untouched
       /\ outcome'[r] \in {"InvalidDecision", "CommentRequired"} =>
            /\ ~durable'[r]
            /\ attempts'[r] = 0
            /\ fut'[r] = "none"]_vars

C7_Witness ==
  \E r \in Reqs : pc[r] = "done" /\ outcome[r] = "InvalidDecision"

\* C8: no rejected event has a blank comment, in any record file and in
\* any record a handler is about to save
NoBareRejection(responses) ==
  \A i \in 1..Len(responses) :
    responses[i].decision = "rejected" => ~Blank(responses[i].comment)

C8_RejectedHasComment ==
  /\ \A t \in Records : NoBareRejection(files[t].responses)
  /\ \A r \in Reqs : NoBareRejection(rec[r].responses)

C8_Witness ==
  \E t \in Records : \E i \in 1..Len(files[t].responses) :
    files[t].responses[i].decision = "rejected"

\* C9: a delivery is started or queued for a request only after
\* save_record has returned for its record, and a request that ended in a
\* store error has no delivery
C9_PersistBeforeNotify ==
  \A r \in Reqs :
    /\ (attempts[r] > 0 \/ fut[r] # "none") => durable[r]
    /\ outcome[r] = "StoreError" =>
         /\ ~durable[r]
         /\ attempts[r] = 0
         /\ fut[r] = "none"

C9_Witness ==
  \E r1, r2 \in Reqs :
    /\ durable[r1] /\ attempts[r1] = 1
    /\ outcome[r2] = "StoreError"

\* C10: once its record is saved a decision request returns success, with
\* a warning when the delivery failed or did not finish in time, and no
\* step of the notification touches a record file
C10_NotifyNeverFatal ==
  [][/\ \A r \in Reqs :
          /\ (durable[r] /\ pc'[r] = "done") => outcome'[r] = "ok"
          /\ (Leaves(r, "wait") /\ fut[r] # "ok") =>
               outcome'[r] = "ok" /\ warning'[r] # ""
          /\ (Leaves(r, "notify") \/ Leaves(r, "sending") \/ Leaves(r, "wait")) =>
               UNCHANGED storeVars
     /\ poolVars' # poolVars => UNCHANGED storeVars]_vars

C10_Witness ==
  \E r1, r2 \in Reqs :
    /\ pc[r1] = "done" /\ outcome[r1] = "ok" /\ warning[r1] = "Email send failed"
    /\ pc[r2] = "done" /\ outcome[r2] = "ok"
    /\ warning[r2] = "Email is sending in background"

\* ------------------------------------------------- notification claims
Background == "Email is sending in background"
SendFailed == "Email send failed"

\* the caller of r has returned on a timeout and its task has not ended
Detached(r) ==
  pc[r] = "done" /\ warning[r] = Background /\ fut[r] \in {"queued", "running"}

\* C11: with EMAIL_MODE off no delivery is ever queued, started or counted,
\* and every request returns with an empty warning
C11_DisabledMode ==
  EMAIL_MODE = "off" =>
    /\ queue = <<>>
    /\ running = {}
    /\ \A r \in Reqs : attempts[r] = 0 /\ fut[r] = "none" /\ warning[r] = ""

C11_Witness ==
  /\ EMAIL_MODE = "off"
  /\ \E r \in Reqs : pc[r] = "done" /\ durable[r] /\ outcome[r] = "ok"

\* C12: when the handler stops waiting on its future the warning is fixed
\* by what happened first: empty when the delivery had succeeded, the
\* failure warning when it had failed, the background warning when
\* SMTP_TIMEOUT ticks had passed with the delivery not ended
C12_WarningByFirstEvent ==
  [][\A r \in Reqs :
       Leaves(r, "wait") =>
         CASE fut[r] = "ok" -> warning'[r] = ""
           [] fut[r] = "fail" -> warning'[r] = SendFailed
           [] OTHER -> warning'[r] = Background /\ timer[r] = SMTP_TIMEOUT]_vars

\* C13: with the workers scheduled fairly and every send ending, from some
\* moment on no task is left behind by a caller that timed out without
\* having ended, and such a task stops being left behind only by ending as
\* sent or failed: every one of them ends. The timeout takes nothing out
\* of the pool, and a task that ends after its caller returned changes no
\* response and no record file
C13_DetachedCompletes ==
  /\ <>[](\A r \in Reqs : ~Detached(r))
  /\ [][\A r \in Reqs :
          /\ (Detached(r) /\ ~Detached(r)') => fut'[r] \in SendResults
          /\ Leaves(r, "wait") => UNCHANGED <<fut, queue, running, attempts>>
          /\ (pc[r] = "done" /\ fut'[r] # fut[r]) =>
               UNCHANGED <<resultVars, storeVars>>]_vars

C13_Witness ==
  \E r \in Reqs :
    /\ pc[r] = "done"
    /\ warning[r] = Background
    /\ fut[r] = "ok"
    /\ attempts[r] = 1

\* C14: a handler waiting on its future has waited at most SMTP_TIMEOUT
\* ticks, at SMTP_TIMEOUT ticks it can return whatever the pool is doing,
\* and when it returns with its delivery not ended the caller gets success
\* with a warning
C14_BoundedWait ==
  /\ [](\A r \in Reqs :
          pc[r] = "wait" =>
            /\ timer[r] <= SMTP_TIMEOUT
            /\ timer[r] = SMTP_TIMEOUT =>
                 ENABLED (respond_form_result(r) \/ respond_form_timeout(r)))
  /\ [][\A r \in Reqs :
          (Leaves(r, "wait") /\ fut[r] \notin SendResults) =>
            /\ pc'[r] = "done"
            /\ outcome'[r] = "ok"
            /\ warning'[r] # ""]_vars

C14_Witness ==
  \E r \in Reqs :
    /\ Detached(r)
    /\ fut[r] = "queued"
    /\ Cardinality(running) = 2

\* C15: when the process dies while a decision request is between its
\* load_record and the end of its save_record, and no earlier write has
\* failed, the file of its token still holds the record the request loaded
C15_CrashAtomic ==
  [][(~crashed /\ crashed') =>
       \A r \in Reqs :
         ( /\ handler[r] = "respond_form"
           /\ pc[r] \in {"open", "dump"}
           /\ \A o \in Reqs : outcome[o] # "StoreError" ) =>
           /\ files'[rec[r].token].kind = "json"
           /\ files'[rec[r].token].responses = loaded[r]]_vars

\* C16: the token an upload draws names no record file
C16_FreshToken ==
  [][\A r \in Reqs :
       ( /\ Arrives(r)
         /\ handler'[r] \in {"upload_post", "api_upload"} ) =>
         files[rec'[r].token].kind = "absent"]_vars

\* the requests that are inside save_record for token tok, or about to call it
Writers(tok) == {w \in Reqs : pc[w] \in {"open", "dump"} /\ rec[w].token = tok}

\* one decision request is saving token tok, no upload is, and no write
\* has failed so far
OnePut(tok) ==
  /\ \E w \in Reqs : Writers(tok) = {w} /\ handler[w] = "respond_form"
  /\ \A o \in Reqs : outcome[o] # "StoreError"

\* C17: a proof page or a decision request that reads a token while one
\* decision request is saving it gets a record, never a read error
C17_ReadDuringPut ==
  [][\A r \in Reqs :
       Arrives(r) =>
         \A tok \in Tokens :
           OnePut(tok) =>
             /\ proof_page(r, tok) => outcome'[r] = "Page"
             /\ \A f \in Forms(AnyForm) :
                  Posted(r, tok, f) => outcome'[r] # "ReadError"]_vars

\* C18: at most two deliveries execute at once; every other delivery that
\* was submitted and has not ended waits in the queue
C18_PoolSize ==
  /\ Cardinality(running) <= 2
  /\ \A r \in Reqs :
       /\ r \in running <=> fut[r] = "running"
       /\ (\E i \in 1..Len(queue) : queue[i] = r) <=> fut[r] = "queued"

C18_Witness == Cardinality(running) = 2 /\ queue # <<>>

\* C19 as stated: for every decision request that has returned with its
\* record saved, in sync and async mode, one delivery attempt was started
C19_AttemptsEqualPersisted ==
  EMAIL_MODE # "off" =>
    \A r \in Reqs : (pc[r] = "done" /\ durable[r]) => attempts[r] = 1

\* C19: no request has more than one delivery attempt and none is made
\* for a request whose record was not saved; a request turned away has
\* no delivery at all; in sync and async mode a request that returned
\* with its record saved has its one delivery either attempted or still
\* waiting in the queue, not yet attempted
C19_OneDeliveryEach ==
  \A r \in Reqs :
    /\ attempts[r] <= 1
    /\ attempts[r] = 1 => durable[r]
    /\ fut[r] = "queued" => attempts[r] = 0
    /\ outcome[r] \in {"RecordNotFound", "InvalidDecision", "CommentRequired"} =>
         attempts[r] = 0 /\ fut[r] = "none"
    /\ (EMAIL_MODE # "off" /\ pc[r] = "done" /\ durable[r]) =>
         attempts[r] = 1 \/ fut[r] = "queued"

C19_Witness ==
  \E r1, r2 \in Reqs :
    /\ Detached(r1) /\ fut[r1] = "queued" /\ attempts[r1] = 0
    /\ pc[r2] = "done" /\ warning[r2] = SendFailed /\ attempts[r2] = 1

====
